---- MODULE Spec2Model ----
(***************************************************************************)
(* Measles/Rubella dashboard: the data pipeline of apputil.py              *)
(* (normalize_and_transform, add_rolls_yoy) and the anomaly scorer of      *)
(* anomaly_detector.py (detect_anomalies_for_country).                      *)
(*                                                                         *)
(* Numbers are exact rationals <<n, d>> (d > 0, lowest terms); the         *)
(* rounding of IEEE doubles is not modelled.  A null (NaN, pd.NA, None)    *)
(* is the empty tuple.  Text is a tuple of one-character strings.          *)
(***************************************************************************)
EXTENDS Integers, Sequences, FiniteSets, TLC

\* ------------------------------------------------------------------ bounds
\* Rows of the free-form input tables.
MaxRows == 2
\* Rows of the single-country time-series input tables.
MaxSeries == 6

\* ------------------------------------------------------------- arithmetic
Null == <<>>

IsNull(x) == x = Null

Abs(n) == IF n < 0 THEN -n ELSE n

RECURSIVE GCD(_, _)
GCD(a, b) == IF b = 0 THEN a ELSE GCD(b, a % b)

\* The rational n/d in lowest terms with a positive denominator.
Rat(n, d) ==
    LET s == IF d < 0 THEN -1 ELSE 1
        g == GCD(Abs(n), Abs(d))
    IN  <<(s * n) \div g, (s * d) \div g>>

IntNum(n) == <<n, 1>>

RatAdd(a, b) == Rat(a[1] * b[2] + b[1] * a[2], a[2] * b[2])

RatSub(a, b) == Rat(a[1] * b[2] - b[1] * a[2], a[2] * b[2])

RatDiv(a, b) == Rat(a[1] * b[2], a[2] * b[1])

RatLess(a, b) == a[1] * b[2] < b[1] * a[2]

IsZero(a) == a[1] = 0

IsWhole(a) == a[2] = 1

\* ------------------------------------------------------------------- text
Space == " "

Digits == <<"0", "1", "2", "3", "4", "5", "6", "7", "8", "9">>

IsDigit(ch) == \E i \in 1..10 : Digits[i] = ch

DigitVal(ch) == (CHOOSE i \in 1..10 : Digits[i] = ch) - 1

\* Code points of the characters the model's texts are made of.
CharOrd(ch) ==
    CASE ch = " " -> 32
      [] ch = "/" -> 47
      [] IsDigit(ch) -> 48 + DigitVal(ch)
      [] ch = "A" -> 65
      [] ch = "B" -> 66
      [] ch = "E" -> 69
      [] ch = "F" -> 70
      [] ch = "M" -> 77
      [] ch = "N" -> 78
      [] ch = "R" -> 82
      [] ch = "a" -> 97
      [] ch = "n" -> 110
      [] OTHER -> 120

RECURSIVE StrLess(_, _)
StrLess(s, t) ==
    IF t = <<>> THEN FALSE
    ELSE IF s = <<>> THEN TRUE
    ELSE IF CharOrd(Head(s)) # CharOrd(Head(t))
         THEN CharOrd(Head(s)) < CharOrd(Head(t))
         ELSE StrLess(Tail(s), Tail(t))

RECURSIVE LStrip(_)
LStrip(s) == IF s # <<>> /\ Head(s) = Space THEN LStrip(Tail(s)) ELSE s

RECURSIVE RStrip(_)
RStrip(s) ==
    IF s # <<>> /\ s[Len(s)] = Space THEN RStrip(SubSeq(s, 1, Len(s) - 1)) ELSE s

\* str.strip(): leading and trailing whitespace removed.
Strip(s) == RStrip(LStrip(s))

\* --------------------------------------------------------------- raw cells
\* A cell of the uploaded sheet: a number, a text, or an empty cell.
NumCell(n, d) == <<"num", n, d>>

StrCell(s) == <<"str", s>>

NanCell == <<"nan">>

IsNum(c) == c[1] = "num"

IsStr(c) == c[1] = "str"

IsNan(c) == c[1] = "nan"

RECURSIVE ParseDigits(_, _)
ParseDigits(s, acc) ==
    IF s = <<>> THEN acc ELSE ParseDigits(Tail(s), 10 * acc + DigitVal(Head(s)))

\* A text that pd.to_numeric can parse: decimal digits, blanks around them allowed.
IsNumericText(s) ==
    LET t == Strip(s) IN t # <<>> /\ \A i \in 1..Len(t) : IsDigit(t[i])

\* pd.to_numeric(series, errors="coerce") on one cell.
ToNumeric(c) ==
    IF IsNum(c) THEN Rat(c[2], c[3])
    ELSE IF IsStr(c) /\ IsNumericText(c[2]) THEN IntNum(ParseDigits(Strip(c[2]), 0))
    ELSE Null

\* Series.astype(str) on one cell of a text column: an empty cell reads "nan".
AsStr(c) == IF IsStr(c) THEN c[2] ELSE <<"n", "a", "n">>

\* ------------------------------------------------------------------ tables
\* A table is [cols |-> set of column names, rows |-> sequence of rows], a row
\* being a function from the column names to cells.
SourceCols ==
    {"Region", "Country", "Year", "Measles_Cases", "Rubella_Cases", "Population"}

OptionalCols == {"Measles_Cases_Per_100K", "Rubella_Cases_Per_100K"}

\* A column the pipeline does not know.
PassCols == {"Notes"}

\* The column sets of the expected sheet, with none, one or both of the
\* optional per-100k columns, and those of a sheet with one of its columns
\* missing.
ColSets ==
    {SourceCols \cup PassCols \cup o :
        o \in {{}, {"Measles_Cases_Per_100K"}, OptionalCols}}

MissingColSets ==
    {(SourceCols \ {c}) \cup PassCols :
        c \in {"Country", "Year", "Measles_Cases", "Rubella_Cases"}}

NA_Text == <<"N", "/", "A">>

CountryCells == {StrCell(<<"A">>), StrCell(<<"B", " ">>)}

YearCells ==
    {NumCell(2020, 1), StrCell(<<"2", "0", "2", "2">>), StrCell(NA_Text),
     NumCell(4041, 2)}

MeasureCells == {StrCell(NA_Text), NumCell(0, 1), NumCell(1, 1)}

RegionCell(c) ==
    IF c = StrCell(<<"A">>) THEN StrCell(<<" ", "A", "F", "R">>)
    ELSE StrCell(<<"E", "M", "R">>)

\* The table with columns cols whose i-th row has country, year and measles
\* cells spec[i]; the rubella column holds the measles cells in reverse row
\* order, the per-100k columns repeat the case columns.
MakeTable(cols, spec) ==
    LET n == Len(spec)
        cell(i, c) ==
            CASE c = "Region" -> RegionCell(spec[i][1])
              [] c = "Country" -> spec[i][1]
              [] c = "Year" -> spec[i][2]
              [] c = "Measles_Cases" -> spec[i][3]
              [] c = "Rubella_Cases" -> spec[n + 1 - i][3]
              [] c = "Population" -> NumCell(1000, 1)
              [] c = "Measles_Cases_Per_100K" -> spec[i][3]
              [] c = "Rubella_Cases_Per_100K" -> spec[n + 1 - i][3]
              [] OTHER -> StrCell(<<"x">>)
    IN  [cols |-> cols, rows |-> [i \in 1..n |-> [c \in cols |-> cell(i, c)]]]

SeqsUpTo(S, n) == UNION {[1..k -> S] : k \in 0..n}

\* Free-form sheets: the expected columns, any cells, at most n rows.
RawTables(n) ==
    {MakeTable(cols, spec) :
        cols \in ColSets,
        spec \in SeqsUpTo(CountryCells \X YearCells \X MeasureCells, n)}

\* Sheets with a column missing: any cells, at most n rows.
MissingColTables(n) ==
    {MakeTable(cols, spec) :
        cols \in MissingColSets,
        spec \in SeqsUpTo(CountryCells \X YearCells \X MeasureCells, n)}

\* One country's yearly series of at most n rows, years ascending or
\* descending in the sheet.
SeriesTables(n) ==
    {MakeTable(SourceCols \cup PassCols \cup {"Measles_Cases_Per_100K"},
               [i \in 1..Len(ms) |->
                   <<StrCell(<<"A">>),
                     NumCell(IF asc THEN 2019 + i ELSE 2020 + Len(ms) - i, 1),
                     ms[i]>>]) :
        ms \in SeqsUpTo(MeasureCells, n), asc \in BOOLEAN}

\* The sheet of the documented example: CountryA 2020..2022, measles 100, 150, 95.
ExampleTable ==
    MakeTable(SourceCols \cup PassCols,
              <<<<StrCell(<<"A">>), NumCell(2020, 1), NumCell(100, 1)>>,
                <<StrCell(<<"A">>), NumCell(2021, 1), NumCell(150, 1)>>,
                <<StrCell(<<"A">>), NumCell(2022, 1), NumCell(95, 1)>>>>)

\* ---------------------------------------------------- normalize_and_transform
\* df.rename(columns={...}): the fixed mapping, other names unchanged.
Rename(c) ==
    CASE c = "Region" -> "region"
      [] c = "Country" -> "country"
      [] c = "Year" -> "year"
      [] c = "Measles_Cases" -> "measles"
      [] c = "Rubella_Cases" -> "rubella"
      [] c = "Population" -> "population"
      [] c = "Measles_Cases_Per_100K" -> "measles_per100k"
      [] c = "Rubella_Cases_Per_100K" -> "rubella_per100k"
      [] OTHER -> c

\* rename() returns a new table; the argument is left as it is.
RenameTable(t) ==
    LET newCols == {Rename(c) : c \in t.cols}
        src(k) == CHOOSE c \in t.cols : Rename(c) = k
    IN  [cols |-> newCols,
         rows |-> [i \in 1..Len(t.rows) |-> [k \in newCols |-> t.rows[i][src(k)]]]]

\* df[c] = df[c].astype(str).str.strip()
StripColumn(t, c) ==
    [t EXCEPT !.rows =
        [i \in 1..Len(t.rows) |-> [t.rows[i] EXCEPT ![c] = Strip(AsStr(@))]]]

\* df[c] = pd.to_numeric(df[c], errors="coerce")
NumericColumn(t, c) ==
    [t EXCEPT !.rows =
        [i \in 1..Len(t.rows) |-> [t.rows[i] EXCEPT ![c] = ToNumeric(@)]]]

\* Series.astype("Int64") of the coerced year column: refused unless every
\* non-null value is a whole number.
CanCastInt64(t) ==
    \A i \in 1..Len(t.rows) :
        LET v == ToNumeric(t.rows[i]["year"]) IN IsNull(v) \/ IsWhole(v)

MeasureCols == <<"measles", "rubella", "population", "measles_per100k", "rubella_per100k">>

RECURSIVE CoerceMeasures(_, _)
CoerceMeasures(t, k) ==
    IF k > Len(MeasureCols) THEN t
    ELSE IF MeasureCols[k] \in t.cols
         THEN CoerceMeasures(NumericColumn(t, MeasureCols[k]), k + 1)
         ELSE CoerceMeasures(t, k + 1)

\* -------------------------------------------------------------- long table
DiseaseOrd(d) ==
    CASE d = "Measles" -> 1
      [] d = "Measles_per100k" -> 2
      [] d = "Rubella" -> 3
      [] d = "Rubella_per100k" -> 4

\* Ascending order of a nullable number column, nulls last.
YearLess(a, b) == ~IsNull(a) /\ (IsNull(b) \/ RatLess(a, b))

\* The strict order of sort_values(by): by is "country,disease,year",
\* "country,year" or "year".
RowLess(by, a, b) ==
    CASE by = "year" -> YearLess(a.year, b.year)
      [] by = "country,year" ->
            \/ StrLess(a.country, b.country)
            \/ a.country = b.country /\ YearLess(a.year, b.year)
      [] by = "country,disease,year" ->
            \/ StrLess(a.country, b.country)
            \/ /\ a.country = b.country
               /\ \/ DiseaseOrd(a.disease) < DiseaseOrd(b.disease)
                  \/ a.disease = b.disease /\ YearLess(a.year, b.year)

\* r placed after every row of the sorted s that is not greater than it.
RECURSIVE InsertSorted(_, _, _)
InsertSorted(by, r, s) ==
    IF s = <<>> THEN <<r>>
    ELSE IF RowLess(by, r, s[Len(s)])
         THEN Append(InsertSorted(by, r, SubSeq(s, 1, Len(s) - 1)), s[Len(s)])
         ELSE Append(s, r)

\* DataFrame.sort_values(by): rows with equal keys keep their order.
RECURSIVE SortValues(_, _)
SortValues(by, s) ==
    IF s = <<>> THEN <<>>
    ELSE InsertSorted(by, s[Len(s)], SortValues(by, SubSeq(s, 1, Len(s) - 1)))

\* df[["region","country","year",col]].rename(columns={col:"value"})
\*     .assign(disease=label)
LongSlice(t, col, label) ==
    [i \in 1..Len(t.rows) |->
        [idx |-> i - 1,
         region |-> t.rows[i]["region"],
         country |-> t.rows[i]["country"],
         year |-> t.rows[i]["year"],
         value |-> t.rows[i][col],
         disease |-> label]]

\* pd.concat(frames, ignore_index=True): the index is renumbered from 0.
Reindex(s) == [i \in 1..Len(s) |-> [s[i] EXCEPT !.idx = i - 1]]

\* ------------------------------------------------------------ add_rolls_yoy
\* The running count and sum of Series.rolling(w).mean() after row i: row i is
\* added to the window and row i - w, if there is one, is removed; nulls are
\* neither counted nor summed.
RECURSIVE RollState(_, _, _)
RollState(vals, w, i) ==
    IF i = 0 THEN [nobs |-> 0, sum |-> IntNum(0)]
    ELSE LET p == RollState(vals, w, i - 1)
             a == IF IsNull(vals[i]) THEN p
                  ELSE [nobs |-> p.nobs + 1, sum |-> RatAdd(p.sum, vals[i])]
         IN  IF i - w >= 1 /\ ~IsNull(vals[i - w])
             THEN [nobs |-> a.nobs - 1, sum |-> RatSub(a.sum, vals[i - w])]
             ELSE a

\* rolling(w) with min_periods left at its default, the window length.
RollMean_DefaultMinPeriods(vals, w, minp, i) ==
    LET st == RollState(vals, w, i)
    IN  IF st.nobs >= w THEN RatDiv(st.sum, IntNum(st.nobs)) ELSE Null

\* g["value"].rolling(w, min_periods=minp).mean() at row i.
RollMean(vals, w, minp, i) ==
    LET st == RollState(vals, w, i)
    IN  IF st.nobs >= minp /\ st.nobs > 0
        THEN RatDiv(st.sum, IntNum(st.nobs)) ELSE Null

\* The growth without the guard on a zero previous value: the division by
\* zero gives an infinite value, <<1, 0>> here.
YoY_NoZeroGuard(vals, i) ==
    LET prev == IF i = 1 THEN Null ELSE vals[i - 1]
    IN  IF ~IsNull(prev)
        THEN IF IsNull(vals[i]) THEN Null
             ELSE IF IsZero(prev) THEN <<1, 0>>
             ELSE RatSub(RatDiv(vals[i], prev), IntNum(1))
        ELSE Null

\* np.where(prev.notna() & (prev != 0), g["value"]/prev - 1, np.nan) at row i,
\* prev being g["value"].shift(1).
YoY(vals, i) ==
    LET prev == IF i = 1 THEN Null ELSE vals[i - 1]
    IN  IF ~IsNull(prev) /\ ~IsZero(prev)
        THEN IF IsNull(vals[i]) THEN Null
             ELSE RatSub(RatDiv(vals[i], prev), IntNum(1))
        ELSE Null

add_rolls_yoy(g) ==
    LET s == SortValues("year", g)
        vals == [i \in 1..Len(s) |-> s[i].value]
    IN  [i \in 1..Len(s) |->
            [idx |-> s[i].idx, region |-> s[i].region, country |-> s[i].country,
             year |-> s[i].year, value |-> s[i].value, disease |-> s[i].disease,
             roll3 |-> RollMean(vals, 3, 1, i),
             roll5 |-> RollMean(vals, 5, 1, i),
             yoy |-> YoY(vals, i)]]

\* The group key of a row under groupby(by).
GroupKey(by, r) == IF by = "country" THEN <<r.country>> ELSE <<r.country, r.disease>>

KeyLess(a, b) ==
    \/ StrLess(a[1], b[1])
    \/ Len(a) = 2 /\ a[1] = b[1] /\ DiseaseOrd(a[2]) < DiseaseOrd(b[2])

\* frame.groupby(by, group_keys=False).apply(add_rolls_yoy): the groups in
\* ascending key order, each one enriched on its own rows only.
RECURSIVE GroupApply(_, _)
GroupApply(by, rows) ==
    IF rows = <<>> THEN <<>>
    ELSE LET keys == {GroupKey(by, rows[i]) : i \in 1..Len(rows)}
             k == CHOOSE x \in keys : \A y \in keys : ~KeyLess(y, x)
             in(r) == GroupKey(by, r) = k
             out(r) == GroupKey(by, r) # k
         IN  add_rolls_yoy(SelectSeq(rows, in)) \o GroupApply(by, SelectSeq(rows, out))

\* ------------------------------------------------------------------- state
VARIABLES
    raw,        \* the caller's table, as read from the uploaded sheet
    df,         \* normalize_and_transform's local table
    long_df,    \* normalize_and_transform's long table
    pc,         \* the statement normalize_and_transform is at
    exc,        \* the exception that ended the call, <<>> if none
    wide,       \* the wide table detect_anomalies_for_country is called with
    cache,      \* st.cache_data's store of detect_anomalies_for_country
    np_random,  \* the state of numpy's process-wide random generator
    call,       \* the arguments of the running call, <<>> when none runs
    apc,        \* the statement detect_anomalies_for_country is at
    country_data, \* its local country_data
    features,   \* its locals measles_features, rubella_features, joint_features
    result,     \* its local result
    last,       \* the outcome of the call that ended last, <<>> before any
    first,      \* per key, the first value ever computed for it
    calls_left, \* calls still to be made in this run of the model
    spc,        \* the statement the dashboard script (app.py) is at
    uploaded,   \* the file held by the st.file_uploader widget, "none" if none
    read_cache, \* st.cache_data's store of _read_excel_from_bytes
    messages,   \* what the script run has reported with st.info / st.error
    normalized, \* the tables normalize_and_transform was invoked with, in order
    base_wide,  \* the script's base_wide
    base_long,  \* the script's base_long
    widgets,    \* the values of the sidebar widgets in this run
    long_f,     \* the script's long_f
    figs,       \* the chart names assigned in this run
    runs_left,  \* script runs still to come in this run of the model
    gpc,        \* the statement get_global_anomalies is at
    countries,  \* its local countries
    idx,        \* its loop index
    all_anomalies, \* its local all_anomalies
    g_contamination, \* its argument contamination
    progress,   \* the values given to progress_bar.progress, in order
    combined    \* the value get_global_anomalies returned or raised

nvars == <<raw, df, long_df, pc, exc>>

avars == <<wide, cache, np_random, call, apc, country_data, features, result,
           last, first, calls_left>>

svars == <<spc, uploaded, read_cache, messages, normalized, base_wide, base_long,
           widgets, long_f, figs, runs_left>>

gvars == <<gpc, countries, idx, all_anomalies, g_contamination, progress,
           combined>>

vars == <<nvars, avars, svars, gvars>>

EmptyTable == [cols |-> {}, rows |-> <<>>]

NoFeatures == [present |-> FALSE, X |-> <<>>]

\* No call of detect_anomalies_for_country has been made or will be.
AnomalyIdle ==
    /\ wide = EmptyTable
    /\ cache = <<>>
    /\ np_random = 0
    /\ call = <<>>
    /\ apc = "idle"
    /\ country_data = <<>>
    /\ features = [measles |-> NoFeatures, rubella |-> NoFeatures, joint |-> NoFeatures]
    /\ result = EmptyTable
    /\ last = <<>>
    /\ first = <<>>
    /\ calls_left = 0

\* The dashboard script is not running.
AppIdle ==
    /\ spc = "off"
    /\ uploaded = "none"
    /\ read_cache = <<>>
    /\ messages = <<>>
    /\ normalized = <<>>
    /\ base_wide = EmptyTable
    /\ base_long = <<>>
    /\ widgets = <<>>
    /\ long_f = <<>>
    /\ figs = {}
    /\ runs_left = 0

\* No call of get_global_anomalies has been made or will be.
GlobalIdle ==
    /\ gpc = "off"
    /\ countries = <<>>
    /\ idx = 0
    /\ all_anomalies = <<>>
    /\ g_contamination = <<>>
    /\ progress = <<>>
    /\ combined = <<>>

Init ==
    /\ \/ raw \in RawTables(MaxRows)
       \/ raw \in MissingColTables(1)
       \/ raw \in SeriesTables(MaxSeries)
       \/ raw = ExampleTable
    /\ df = EmptyTable
    /\ long_df = <<>>
    /\ pc = "rename"
    /\ exc = <<>>
    /\ AnomalyIdle
    /\ AppIdle
    /\ GlobalIdle

\* df.rename(columns=...) with inplace=True: the caller's table itself is
\* renamed and stays the table the function works on.
RenameCopies_InPlace == FALSE

\* Lines 14-20: df = df.rename(columns=...) binds df to a new table, the
\* caller's table is another object.
RenameCopies == TRUE

\* The caller's table once the local df holds t: untouched if df is a table
\* of its own.
CallerTable(t) == IF RenameCopies THEN raw ELSE t

Raise(kind, what) ==
    /\ pc' = "raised"
    /\ exc' = <<kind, what>>

\* Lines 14-20.
DoRename ==
    /\ pc = "rename"
    /\ df' = RenameTable(raw)
    /\ pc' = "strip"
    /\ raw' = CallerTable(df')
    /\ UNCHANGED <<long_df, exc>>
    /\ UNCHANGED <<avars, svars, gvars>>

\* Lines 21-22: region first, then country; a missing column is a KeyError.
DoStrip ==
    /\ pc = "strip"
    /\ IF "region" \notin df.cols
       THEN Raise("KeyError", "region") /\ UNCHANGED df
       ELSE IF "country" \notin df.cols
       THEN Raise("KeyError", "country") /\ df' = StripColumn(df, "region")
       ELSE /\ df' = StripColumn(StripColumn(df, "region"), "country")
            /\ pc' = "year"
            /\ UNCHANGED exc
    /\ raw' = CallerTable(df')
    /\ UNCHANGED long_df
    /\ UNCHANGED <<avars, svars, gvars>>

\* Line 23.
DoYear ==
    /\ pc = "year"
    /\ IF "year" \notin df.cols
       THEN Raise("KeyError", "year") /\ UNCHANGED df
       ELSE IF ~CanCastInt64(df)
       THEN Raise("TypeError", "year") /\ UNCHANGED df
       ELSE /\ df' = NumericColumn(df, "year")
            /\ pc' = "measures"
            /\ UNCHANGED exc
    /\ raw' = CallerTable(df')
    /\ UNCHANGED long_df
    /\ UNCHANGED <<avars, svars, gvars>>

\* Lines 24-26.
DoMeasures ==
    /\ pc = "measures"
    /\ df' = CoerceMeasures(df, 1)
    /\ pc' = "long"
    /\ raw' = CallerTable(df')
    /\ UNCHANGED <<long_df, exc>>
    /\ UNCHANGED <<avars, svars, gvars>>

\* Lines 29-31: both case columns are selected unconditionally.
DoLong ==
    /\ pc = "long"
    /\ IF "measles" \notin df.cols
       THEN Raise("KeyError", "measles") /\ UNCHANGED long_df
       ELSE IF "rubella" \notin df.cols
       THEN Raise("KeyError", "rubella") /\ UNCHANGED long_df
       ELSE /\ long_df' =
                  SortValues("country,disease,year",
                      Reindex(LongSlice(df, "measles", "Measles")
                                  \o LongSlice(df, "rubella", "Rubella")))
            /\ pc' = "enrich"
            /\ UNCHANGED exc
    /\ UNCHANGED <<raw, df>>
    /\ UNCHANGED <<avars, svars, gvars>>

\* Line 42.
DoEnrich ==
    /\ pc = "enrich"
    /\ long_df' = GroupApply("country,disease", long_df)
    /\ pc' = "extras"
    /\ UNCHANGED <<raw, df, exc>>
    /\ UNCHANGED <<avars, svars, gvars>>

\* A per-100k slice, lines 47-48 and 51-52.
ExtraSlice(col, label) ==
    IF col \in df.cols
    THEN <<GroupApply("country", SortValues("country,year", LongSlice(df, col, label)))>>
    ELSE <<>>

RECURSIVE Flatten(_)
Flatten(ss) == IF ss = <<>> THEN <<>> ELSE Head(ss) \o Flatten(Tail(ss))

\* Lines 45-55.
DoExtras ==
    /\ pc = "extras"
    /\ LET extras == ExtraSlice("measles_per100k", "Measles_per100k")
                        \o ExtraSlice("rubella_per100k", "Rubella_per100k")
       IN  long_df' = IF extras # <<>>
                      THEN Reindex(long_df \o Flatten(extras))
                      ELSE long_df
    /\ pc' = "return"
    /\ UNCHANGED <<raw, df, exc>>
    /\ UNCHANGED <<avars, svars, gvars>>

\* Line 57.
DoReturn ==
    /\ pc = "return"
    /\ pc' = "done"
    /\ UNCHANGED <<raw, df, long_df, exc>>
    /\ UNCHANGED <<avars, svars, gvars>>

Next ==
    \/ DoRename
    \/ DoStrip
    \/ DoYear
    \/ DoMeasures
    \/ DoLong
    \/ DoEnrich
    \/ DoExtras
    \/ DoReturn

Spec == Init /\ [][Next]_vars

\* ------------------------------------------------- detect_anomalies_for_country
\* Rows of the called country in the wide tables.
MaxYears == 4
\* Calls made in one run of the repeated-call model.
MaxCalls == 2

\* len(country_data) < 3
MinYears == 3
\* random_state=42
RandomSeed == 42
\* n_estimators of the measles and rubella models (not given: the default)
DefaultEstimators == 100
\* n_estimators=100 of the joint model
JointEstimators == 100

\* Seeds the process-wide generator may start from in a fresh process.
Seeds == {7, 11}

\* contamination: the default 0.1, 0.3, and 1.5, which is out of range.
Contaminations == {<<1, 10>>, <<3, 10>>, <<3, 2>>}

CallCountries == {<<"A">>, <<"B">>}

MeaslesValue(i) == IF i = 3 THEN 40 ELSE 2 + i

RubellaValue(i) == IF i = 1 THEN 30 ELSE i

\* The wide table with columns cols: one row of country B, then n rows of
\* country A, latest year first; has[i] names the case values row i holds.
MakeWide(cols, has) ==
    LET n == Len(has)
        cell(c, i, k) ==
            CASE k = "region" -> <<"A", "F", "R">>
              [] k = "country" -> c
              [] k = "year" -> IntNum(2020 + n - i)
              [] k = "measles" ->
                    IF c = <<"B">> \/ "m" \in has[i]
                    THEN IntNum(MeaslesValue(n + 1 - i)) ELSE Null
              [] k = "rubella" ->
                    IF c = <<"B">> \/ "r" \in has[i]
                    THEN IntNum(RubellaValue(n + 1 - i)) ELSE Null
    IN  [cols |-> cols,
         rows |-> <<[k \in cols |-> cell(<<"B">>, n, k)]>>
                     \o [i \in 1..n |-> [k \in cols |-> cell(<<"A">>, i, k)]]]

WideCols == {"region", "country", "year", "measles", "rubella"}

WideTables(n) ==
    {MakeWide(cols, has) :
        cols \in {WideCols, WideCols \ {"measles"}, WideCols \ {"rubella"}},
        has \in SeqsUpTo(SUBSET {"m", "r"}, n)}

\* Wide tables with both case columns and no null in them.
RunTables(n) ==
    {MakeWide(WideCols, [i \in 1..k |-> {"m", "r"}]) : k \in {n - 1, n}}

\* scikit-learn's IsolationForest, reduced to what the caller can observe: the
\* trees are drawn from a generator, each tree makes one random cut of one
\* feature, and a row alone on its side of the cut is isolated by that tree.
RngModulus == 65537

LcgNext(s) == (s * 75 + 74) % RngModulus

RandomState(seed) == seed % RngModulus

\* The generator of a model left without a seed: the process-wide one.
ModelRng_Global(g) == g

\* The generator of a model built with random_state=42, whatever the state g
\* of the process-wide generator.
ModelRng(g) == RandomState(RandomSeed)

\* The rank of every value of X within its feature, 0 for the lowest.
Ranks(X) ==
    [i \in 1..Len(X) |->
        [f \in 1..Len(X[1]) |->
            Cardinality({v \in {X[j][f] : j \in 1..Len(X)} : RatLess(v, X[i][f])})]]

\* The rows the tree drawn as r isolates with its first cut: r picks the
\* feature and the cut between two of its distinct values; R is Ranks(X).
TreeIsolates(R, r) ==
    LET nf == Len(R[1])
        f == 1 + (r % nf)
        m == Cardinality({R[i][f] : i \in 1..Len(R)})
    IN  IF m < 2 THEN {}
        ELSE LET c == (r \div nf) % (m - 1)
                 left == {i \in 1..Len(R) : R[i][f] <= c}
                 right == (1..Len(R)) \ left
             IN  (IF Cardinality(left) = 1 THEN left ELSE {})
                    \cup (IF Cardinality(right) = 1 THEN right ELSE {})

RECURSIVE IsolationCounts(_, _, _, _)
IsolationCounts(R, e, rng, acc) ==
    IF e = 0 THEN acc
    ELSE LET r == LcgNext(rng)
             iso == TreeIsolates(R, r)
         IN  IsolationCounts(R, e - 1, r,
                 [i \in 1..Len(R) |-> acc[i] + (IF i \in iso THEN 1 ELSE 0)])

\* iso.score_samples(X): the lower, the more often isolated.
score_samples(X, n_estimators, rng) ==
    LET cnt == IsolationCounts(Ranks(X), n_estimators, rng, [i \in 1..Len(X) |-> 0])
    IN  [i \in 1..Len(X) |-> 0 - cnt[i]]

\* iso.fit_predict(X), from the scores sc the fitted forest gives the rows of
\* X: -1 for the rows among the ceil(contamination * n) lowest scores, 1 for
\* the others.
fit_predict(sc, contamination) ==
    LET n == Len(sc)
        k == (contamination[1] * n + contamination[2] - 1) \div contamination[2]
    IN  [i \in 1..n |->
            IF Cardinality({j \in 1..n : sc[j] < sc[i]}) < k THEN -1 ELSE 1]

\* What fit() refuses: first a contamination outside (0, 0.5], then a NaN in X.
FitError(X, contamination) ==
    IF ~(contamination[1] > 0 /\ 2 * contamination[1] <= contamination[2])
    THEN <<"InvalidParameterError", "contamination">>
    ELSE IF \E i \in 1..Len(X) : \E f \in 1..Len(X[i]) : IsNull(X[i][f])
    THEN <<"ValueError", "Input X contains NaN">>
    ELSE <<>>

\* if len(country_data) <= 1: the check of line 16 with its bound off by two.
InsufficientData_OffByTwo(cd) == Len(cd) < MinYears - 1

\* Line 16.
InsufficientData(cd) == Len(cd) < MinYears

\* country_data[[cols]].values, or None when a column is missing.
FeaturesOf(cols, cd, dropna) ==
    IF ~(cols \subseteq {"measles", "rubella"}) \/ \E c \in cols : c \notin wide.cols
    THEN NoFeatures
    ELSE LET vec(r) == IF cols = {"measles", "rubella"} THEN <<r.measles, r.rubella>>
                       ELSE IF cols = {"measles"} THEN <<r.measles>>
                       ELSE <<r.rubella>>
             all == [i \in 1..Len(cd) |-> vec(cd[i])]
             full(v) == \A f \in 1..Len(v) : ~IsNull(v[f])
         IN  [present |-> TRUE, X |-> IF dropna THEN SelectSeq(all, full) ELSE all]

\* result[name] = values, for values of the table's length.
WithColumn(t, name, values) ==
    [cols |-> t.cols \cup {name},
     rows |-> [i \in 1..Len(t.rows) |->
                 [k \in t.cols \cup {name} |->
                     IF k = name THEN values[i] ELSE t.rows[i][k]]]]

AnomalyCol(name) ==
    CASE name = "measles" -> "measles_anomaly"
      [] name = "rubella" -> "rubella_anomaly"
      [] name = "joint" -> "joint_anomaly"

ScoreCol(name) ==
    CASE name = "measles" -> "measles_anomaly_score"
      [] name = "rubella" -> "rubella_anomaly_score"
      [] name = "joint" -> "joint_anomaly_score"

NoneValue == [kind |-> "None", table |-> EmptyTable, exc |-> <<>>]

TableValue(t) == [kind |-> "table", table |-> t, exc |-> <<>>]

RaisedValue(e) == [kind |-> "raised", table |-> EmptyTable, exc |-> e]

CallKey == <<wide, call.country, call.contamination>>

ResetLocals ==
    /\ call' = <<>>
    /\ apc' = "idle"
    /\ country_data' = <<>>
    /\ features' = [measles |-> NoFeatures, rubella |-> NoFeatures, joint |-> NoFeatures]
    /\ result' = EmptyTable

\* The call returns v: st.cache_data stores it under the call's arguments.
Finish(v) ==
    /\ cache' = (CallKey :> v) @@ cache
    /\ last' = [key |-> CallKey, value |-> v, hit |-> FALSE, stage |-> apc,
                again |-> CallKey \in DOMAIN first, seed |-> np_random]
    /\ first' = IF CallKey \in DOMAIN first THEN first
                ELSE (CallKey :> [value |-> v, seed |-> np_random]) @@ first
    /\ ResetLocals

\* The call ends in exception e: nothing is stored.
RaiseDet(e) ==
    /\ last' = [key |-> CallKey, value |-> RaisedValue(e), hit |-> FALSE,
                stage |-> apc, again |-> CallKey \in DOMAIN first, seed |-> np_random]
    /\ ResetLocals
    /\ UNCHANGED <<cache, first>>

\* Lines 7-8: a call with arguments the cache holds returns the stored value
\* and the body does not run; any other call runs the body.
DetCall ==
    /\ apc = "idle"
    /\ calls_left > 0
    /\ calls_left' = calls_left - 1
    /\ \E c \in CallCountries, k \in Contaminations :
          IF <<wide, c, k>> \in DOMAIN cache
          THEN /\ last' = [key |-> <<wide, c, k>>, value |-> cache[<<wide, c, k>>],
                           hit |-> TRUE, stage |-> "cache", again |-> TRUE,
                           seed |-> np_random]
               /\ UNCHANGED <<call, apc>>
          ELSE /\ call' = [country |-> c, contamination |-> k]
               /\ apc' = "filter"
               /\ UNCHANGED last
    /\ UNCHANGED <<wide, cache, np_random, country_data, features, result, first>>
    /\ UNCHANGED <<nvars, svars, gvars>>

\* Line 14.
DetFilter ==
    /\ apc = "filter"
    /\ LET mine(r) == r.country = call.country
       IN  country_data' = SortValues("year", SelectSeq(wide.rows, mine))
    /\ apc' = "check"
    /\ UNCHANGED <<wide, cache, np_random, call, features, result, last, first, calls_left>>
    /\ UNCHANGED <<nvars, svars, gvars>>

\* Lines 16-18.
DetCheck ==
    /\ apc = "check"
    /\ IF InsufficientData(country_data)
       THEN Finish(NoneValue)
       ELSE /\ apc' = "features"
            /\ UNCHANGED <<cache, call, country_data, features, result, last, first>>
    /\ UNCHANGED <<wide, np_random, calls_left>>
    /\ UNCHANGED <<nvars, svars, gvars>>

\* Lines 21-27.
DetFeatures ==
    /\ apc = "features"
    /\ features' = [measles |-> FeaturesOf({"measles"}, country_data, FALSE),
                    rubella |-> FeaturesOf({"rubella"}, country_data, FALSE),
                    joint |-> FeaturesOf({"measles", "rubella"}, country_data, TRUE)]
    /\ result' = [cols |-> wide.cols, rows |-> country_data]
    /\ apc' = "measles"
    /\ UNCHANGED <<wide, cache, np_random, call, country_data, last, first, calls_left>>
    /\ UNCHANGED <<nvars, svars, gvars>>

\* One of the three blocks of lines 29-45: the model of feature set name is
\* fitted if the set is there with at least 3 rows, and its labels and scores
\* become two columns of result.
FitBlock(name, n_estimators, next) ==
    LET X == features[name].X
        err == FitError(X, call.contamination)
        rng == ModelRng(np_random)
    IN  IF features[name].present /\ Len(X) >= MinYears
        THEN IF err # <<>>
             THEN RaiseDet(err)
             ELSE IF Len(X) # Len(result.rows)
             THEN RaiseDet(<<"ValueError", "Length of values does not match length of index">>)
             ELSE \E scores \in {score_samples(X, n_estimators, rng)} :
                  \E labels \in {fit_predict(scores, call.contamination)} :
                     /\ result' = WithColumn(WithColumn(result, AnomalyCol(name), labels),
                                             ScoreCol(name), scores)
                     /\ apc' = next
                     /\ UNCHANGED <<cache, call, country_data, features, last, first>>
        ELSE /\ apc' = next
             /\ UNCHANGED <<cache, call, country_data, features, result, last, first>>

\* Lines 29-33.
DetMeasles ==
    /\ apc = "measles"
    /\ FitBlock("measles", DefaultEstimators, "rubella")
    /\ UNCHANGED <<wide, np_random, calls_left>>
    /\ UNCHANGED <<nvars, svars, gvars>>

\* Lines 35-39.
DetRubella ==
    /\ apc = "rubella"
    /\ FitBlock("rubella", DefaultEstimators, "joint")
    /\ UNCHANGED <<wide, np_random, calls_left>>
    /\ UNCHANGED <<nvars, svars, gvars>>

\* Lines 41-45.
DetJoint ==
    /\ apc = "joint"
    /\ FitBlock("joint", JointEstimators, "return")
    /\ UNCHANGED <<wide, np_random, calls_left>>
    /\ UNCHANGED <<nvars, svars, gvars>>

\* Line 47.
DetReturn ==
    /\ apc = "return"
    /\ Finish(TableValue(result))
    /\ UNCHANGED <<wide, np_random, calls_left>>
    /\ UNCHANGED <<nvars, svars, gvars>>

\* The server process is started anew: the cache is empty and the process-wide
\* generator starts from another seed.
Restart ==
    /\ apc = "idle"
    /\ cache' = <<>>
    /\ np_random' \in Seeds
    /\ UNCHANGED <<wide, call, apc, country_data, features, result, last, first, calls_left>>
    /\ UNCHANGED <<nvars, svars, gvars>>

NormalizeIdle ==
    /\ raw = EmptyTable
    /\ df = EmptyTable
    /\ long_df = <<>>
    /\ pc = "off"
    /\ exc = <<>>

AnomalyStart ==
    /\ cache = <<>>
    /\ np_random \in Seeds
    /\ call = <<>>
    /\ apc = "idle"
    /\ country_data = <<>>
    /\ features = [measles |-> NoFeatures, rubella |-> NoFeatures, joint |-> NoFeatures]
    /\ result = EmptyTable
    /\ last = <<>>
    /\ first = <<>>

\* One call on any wide table.
InitAnomaly ==
    /\ NormalizeIdle
    /\ AnomalyStart
    /\ wide \in WideTables(MaxYears)
    /\ calls_left = 1
    /\ AppIdle
    /\ GlobalIdle

\* Up to MaxCalls calls, with restarts between them, on a table without nulls.
InitRuns ==
    /\ NormalizeIdle
    /\ AnomalyStart
    /\ wide \in RunTables(MaxYears)
    /\ calls_left = MaxCalls
    /\ AppIdle
    /\ GlobalIdle

NextAnomaly ==
    \/ DetCall
    \/ DetFilter
    \/ DetCheck
    \/ DetFeatures
    \/ DetMeasles
    \/ DetRubella
    \/ DetJoint
    \/ DetReturn
    \/ Restart

SpecAnomaly == InitAnomaly /\ [][NextAnomaly]_vars

SpecRuns == InitRuns /\ [][NextAnomaly]_vars

\* ----------------------------------------------------- get_global_anomalies
SetMin(S) == CHOOSE x \in S : \A y \in S : x <= y

SetMax(S) == CHOOSE x \in S : \A y \in S : x >= y

\* Wide tables of up to three countries: order is the order in which the
\* countries first appear, count[c] the rows of country c, which come
\* interleaved, one row per country in turn; with gap, the first row of the
\* last country has no measles value.
MakeGlobal(order, count, gap) ==
    LET K == Len(order)
        R == SetMax({count[c] : c \in DOMAIN count} \cup {0})
        grid == [k \in 1..(K * R) |-> <<order[((k - 1) % K) + 1], ((k - 1) \div K) + 1>>]
        has(p) == p[2] <= count[p[1]]
        cells == SelectSeq(grid, has)
        row(p) ==
            [k \in WideCols |->
                CASE k = "region" -> <<"A", "F", "R">>
                  [] k = "country" -> p[1]
                  [] k = "year" -> IntNum(2019 + p[2])
                  [] k = "measles" ->
                        IF gap /\ p[1] = order[K] /\ p[2] = 1 THEN Null
                        ELSE IntNum(MeaslesValue(p[2]))
                  [] k = "rubella" -> IntNum(RubellaValue(p[2]))]
    IN  [cols |-> WideCols, rows |-> [i \in 1..Len(cells) |-> row(cells[i])]]

GlobalCountries == {<<"A">>, <<"B">>, <<"C">>}

\* The sequences without repetition of the elements of S.
Orders(S) ==
    UNION {{o \in [1..k -> S] : \A i \in 1..k : \A j \in 1..k : i # j => o[i] # o[j]} :
              k \in 0..Cardinality(S)}

\* Countries with a single row and countries with n rows.
GlobalTables(n) ==
    {MakeGlobal(o, cnt, gap) :
        o \in Orders(GlobalCountries),
        cnt \in [GlobalCountries -> {1, n}],
        gap \in BOOLEAN}

\* Series.unique(): the distinct values of s in order of first appearance.
RECURSIVE SeqUnique(_, _)
SeqUnique(s, seen) ==
    IF s = <<>> THEN <<>>
    ELSE IF Head(s) \in seen THEN SeqUnique(Tail(s), seen)
    ELSE <<Head(s)>> \o SeqUnique(Tail(s), seen \cup {Head(s)})

\* pd.concat(frames, ignore_index=True) of tables: the columns of all of them,
\* a cell a frame does not have being null.
RECURSIVE Concat(_)
Concat(ts) ==
    IF ts = <<>> THEN EmptyTable
    ELSE LET rest == Concat(Tail(ts))
             cols == Head(ts).cols \cup rest.cols
             fill(r) == [k \in cols |-> IF k \in DOMAIN r THEN r[k] ELSE Null]
             all == Head(ts).rows \o rest.rows
         IN  [cols |-> cols, rows |-> [i \in 1..Len(all) |-> fill(all[i])]]

GlobalFrame ==
    /\ UNCHANGED <<wide, np_random, country_data, features, result, first>>
    /\ UNCHANGED <<nvars, svars>>

\* Lines 53-56.
GlobStart ==
    /\ gpc = "start"
    /\ all_anomalies' = <<>>
    /\ countries' = SeqUnique([i \in 1..Len(wide.rows) |-> wide.rows[i].country], {})
    /\ idx' = 0
    /\ progress' = <<>>
    /\ gpc' = "loop"
    /\ UNCHANGED <<g_contamination, combined>>
    /\ UNCHANGED <<cache, call, apc, last, calls_left>>
    /\ GlobalFrame

\* Line 58, the call: as in DetCall, stored arguments are answered from the
\* cache and the body runs for any others.
GlobCall ==
    /\ gpc = "loop"
    /\ idx < Len(countries)
    /\ LET key == <<wide, countries[idx + 1], g_contamination>>
       IN  IF key \in DOMAIN cache
           THEN /\ last' = [key |-> key, value |-> cache[key], hit |-> TRUE,
                            stage |-> "cache", again |-> TRUE, seed |-> np_random]
                /\ UNCHANGED <<call, apc>>
           ELSE /\ call' = [country |-> countries[idx + 1], contamination |-> g_contamination]
                /\ apc' = "filter"
                /\ UNCHANGED last
    /\ gpc' = "called"
    /\ UNCHANGED <<countries, idx, all_anomalies, g_contamination, progress,
                   combined>>
    /\ UNCHANGED <<cache, calls_left>>
    /\ GlobalFrame

\* Lines 58-61, after the call: an exception of the call is not caught; a
\* result that is not None is kept, and the progress is reported.
GlobCollect ==
    /\ gpc = "called"
    /\ apc = "idle"
    /\ IF last.value.kind = "raised"
       THEN /\ gpc' = "raised"
            /\ combined' = last.value
            /\ UNCHANGED <<idx, all_anomalies, progress>>
       ELSE /\ all_anomalies' = IF last.value.kind = "table"
                                THEN Append(all_anomalies, last.value.table)
                                ELSE all_anomalies
            /\ progress' = Append(progress, Rat(idx + 1, Len(countries)))
            /\ idx' = idx + 1
            /\ gpc' = "loop"
            /\ UNCHANGED combined
    /\ UNCHANGED <<countries, g_contamination>>
    /\ UNCHANGED <<cache, call, apc, last, calls_left>>
    /\ GlobalFrame

\* Lines 63-69.
GlobReturn ==
    /\ gpc = "loop"
    /\ idx = Len(countries)
    /\ combined' = TableValue(Concat(all_anomalies))
    /\ gpc' = "done"
    /\ UNCHANGED <<countries, idx, all_anomalies, g_contamination, progress>>
    /\ UNCHANGED <<cache, call, apc, last, calls_left>>
    /\ GlobalFrame

\* get_global_anomalies is called again on the same table.
GlobAgain ==
    /\ gpc \in {"done", "raised"}
    /\ calls_left > 0
    /\ calls_left' = calls_left - 1
    /\ g_contamination' \in {<<1, 10>>, <<3, 2>>}
    /\ gpc' = "start"
    /\ countries' = <<>>
    /\ idx' = 0
    /\ all_anomalies' = <<>>
    /\ progress' = <<>>
    /\ combined' = <<>>
    /\ UNCHANGED <<cache, call, apc, last>>
    /\ GlobalFrame

InitGlobal ==
    /\ NormalizeIdle
    /\ AppIdle
    /\ AnomalyStart
    /\ wide \in GlobalTables(MaxYears - 1)
    /\ calls_left = MaxCalls - 1
    /\ gpc = "start"
    /\ countries = <<>>
    /\ idx = 0
    /\ all_anomalies = <<>>
    /\ g_contamination \in {<<1, 10>>, <<3, 2>>}
    /\ progress = <<>>
    /\ combined = <<>>

NextGlobal ==
    \/ GlobStart
    \/ GlobCall
    \/ DetFilter
    \/ DetCheck
    \/ DetFeatures
    \/ DetMeasles
    \/ DetRubella
    \/ DetJoint
    \/ DetReturn
    \/ GlobCollect
    \/ GlobReturn
    \/ GlobAgain

SpecGlobal == InitGlobal /\ [][NextGlobal]_vars

\* -------------------------------------------------- load_data_via_uploader
\* Runs of the dashboard script in one server process.
MaxRuns == 2

\* The files a user may hold in the uploader: one that pd.read_excel cannot
\* read, and four sheets.
Files == {"corrupt", "survey", "gaps", "single", "broken"}

Readable(f) == f # "corrupt"

\* pd.read_excel(file_bytes) for the readable files.
\*   survey: A in 2020..2022 and B in 2021..2022, with both per-100k columns;
\*   gaps:   A in 2020, 2021 and a year "N/A", B in 2020, some measures "N/A";
\*   single: the documented example, one country;
\*   broken: a sheet without the Rubella_Cases column.
Sheet(f) ==
    CASE f = "survey" ->
            MakeTable(SourceCols \cup PassCols \cup OptionalCols,
                <<<<StrCell(<<"A">>), NumCell(2020, 1), NumCell(4, 1)>>,
                  <<StrCell(<<"B", " ">>), NumCell(2021, 1), NumCell(0, 1)>>,
                  <<StrCell(<<"A">>), NumCell(2021, 1), NumCell(6, 1)>>,
                  <<StrCell(<<"B", " ">>), NumCell(2022, 1), NumCell(2, 1)>>,
                  <<StrCell(<<"A">>), NumCell(2022, 1), NumCell(90, 1)>>>>)
      [] f = "gaps" ->
            MakeTable(SourceCols \cup PassCols,
                <<<<StrCell(<<"A">>), NumCell(2020, 1), NumCell(1, 1)>>,
                  <<StrCell(<<"A">>), StrCell(NA_Text), NumCell(1, 1)>>,
                  <<StrCell(<<"B", " ">>), NumCell(2020, 1), NumCell(0, 1)>>,
                  <<StrCell(<<"A">>), StrCell(<<"2", "0", "2", "1">>), StrCell(NA_Text)>>>>)
      [] f = "single" -> ExampleTable
      [] f = "broken" ->
            MakeTable((SourceCols \ {"Rubella_Cases"}) \cup PassCols,
                <<<<StrCell(<<"A">>), NumCell(2020, 1), NumCell(1, 1)>>>>)

\* The script run ends: st.stop(), an uncaught exception, or its last line.
RunEnded == spc \in {"stopped", "crashed", "done"}

\* Lines 61-64 without the st.stop() of line 64: the run reports the missing
\* file and goes on.
Upload_NoStop ==
    /\ spc = "upload"
    /\ IF uploaded = "none"
       THEN /\ messages' = Append(messages, "info: please upload")
            /\ spc' = "call"
       ELSE /\ spc' = "read"
            /\ UNCHANGED messages
    /\ UNCHANGED <<uploaded, read_cache, normalized, base_wide, base_long, widgets,
                   long_f, figs, runs_left>>
    /\ UNCHANGED <<nvars, avars, gvars>>

\* Lines 61-64: without a file the run reports it and stops.
Upload ==
    /\ spc = "upload"
    /\ IF uploaded = "none"
       THEN /\ messages' = Append(messages, "info: please upload")
            /\ spc' = "stopped"
       ELSE /\ spc' = "read"
            /\ UNCHANGED messages
    /\ UNCHANGED <<uploaded, read_cache, normalized, base_wide, base_long, widgets,
                   long_f, figs, runs_left>>
    /\ UNCHANGED <<nvars, avars, gvars>>

\* Lines 65-69 with the decorator of lines 8-10: the sheet comes from the
\* cache if these bytes were read before, else from pd.read_excel, which is
\* stored; a failed read is reported and the run stops.
ReadExcel ==
    /\ spc = "read"
    /\ IF uploaded \in DOMAIN read_cache
       THEN /\ raw' = read_cache[uploaded]
            /\ spc' = "call"
            /\ UNCHANGED <<read_cache, messages>>
       ELSE IF Readable(uploaded)
       THEN /\ raw' = Sheet(uploaded)
            /\ read_cache' = (uploaded :> Sheet(uploaded)) @@ read_cache
            /\ spc' = "call"
            /\ UNCHANGED messages
       ELSE /\ messages' = Append(messages, "error: could not read")
            /\ spc' = "stopped"
            /\ UNCHANGED <<raw, read_cache>>
    /\ UNCHANGED <<uploaded, normalized, base_wide, base_long, widgets, long_f, figs,
                   runs_left>>
    /\ UNCHANGED <<df, long_df, pc, exc>>
    /\ UNCHANGED <<avars, gvars>>

\* Line 70, the call: normalize_and_transform has no cache of its own, its
\* body runs on every call.
CallNormalize ==
    /\ spc = "call"
    /\ pc' = "rename"
    /\ normalized' = Append(normalized, raw)
    /\ spc' = "normalize"
    /\ UNCHANGED <<uploaded, read_cache, messages, base_wide, base_long, widgets,
                   long_f, figs, runs_left>>
    /\ UNCHANGED <<raw, df, long_df, exc>>
    /\ UNCHANGED <<avars, gvars>>

\* Lines 70-71, the return; an exception of normalize_and_transform is not
\* caught and ends the run.
LoaderReturn ==
    /\ spc = "normalize"
    /\ pc \in {"done", "raised"}
    /\ IF pc = "done"
       THEN /\ base_wide' = df
            /\ base_long' = long_df
            /\ spc' = "sidebar"
       ELSE /\ spc' = "crashed"
            /\ UNCHANGED <<base_wide, base_long>>
    /\ UNCHANGED <<uploaded, read_cache, messages, normalized, widgets, long_f, figs,
                   runs_left>>
    /\ UNCHANGED <<nvars, avars, gvars>>

\* ------------------------------------------------------------------ app.py
\* The values of column c in the rows s, without nulls: s[c].dropna().unique()
Unique(s, c) == {s[i][c] : i \in {j \in 1..Len(s) : ~IsNull(s[j][c])}}

\* The whole number held by a non-null Int64 year.
IntOf(y) == y[1]

\* Lines 30-33.
DiseaseOptions(long) ==
    {"Measles", "Rubella", "Both"}
        \cup (IF {"Measles_per100k", "Rubella_per100k"}
                    \subseteq {long[i].disease : i \in 1..Len(long)}
              THEN {"Measles_per100k", "Rubella_per100k"} ELSE {})

\* Lines 35-37: the ends of the year slider, and the ranges it can be set to.
YearsAll(long) == {IntOf(y) : y \in Unique(long, "year")}

YearBounds(long) ==
    IF YearsAll(long) # {} THEN <<SetMin(YearsAll(long)), SetMax(YearsAll(long))>>
    ELSE <<2012, 2025>>

YearRanges(long) ==
    LET b == YearBounds(long)
    IN  {<<lo, hi>> \in (b[1]..b[2]) \X (b[1]..b[2]) : lo <= hi}

\* The contamination slider of line 372, two of its positions.
SliderContaminations == {<<1, 10>>, <<3, 10>>}

\* A comparison of a nullable year with a number: "NA" for a null year.
YearGe(y, a) == IF IsNull(y) THEN "NA" ELSE IF IntOf(y) >= a THEN "T" ELSE "F"

YearLe(y, a) == IF IsNull(y) THEN "NA" ELSE IF IntOf(y) <= a THEN "T" ELSE "F"

\* p & q on nullable booleans.
MaskAnd(p, q) ==
    IF p = "F" \/ q = "F" THEN "F" ELSE IF p = "NA" \/ q = "NA" THEN "NA" ELSE "T"

\* df[mask] with NA counted as a match.
MaskSelects_NaMatches(m) == m # "F"

\* df[mask]: a row is kept where the mask is True; NA selects nothing.
MaskSelects(m) == m = "T"

\* Lines 49-58.
apply_filters(long, disease_sel, regions, year_range) ==
    LET is_disease(r) ==
            IF disease_sel = "Both" THEN r.disease \in {"Measles", "Rubella"}
            ELSE r.disease = disease_sel
        in_years(r) ==
            MaskSelects(MaskAnd(YearGe(r.year, year_range[1]),
                                YearLe(r.year, year_range[2])))
        in_regions(r) == regions = {} \/ r.region \in regions
    IN  SelectSeq(SelectSeq(SelectSeq(long, is_disease), in_years), in_regions)

\* rank_df["country"]: the countries of long_f (lines 190, 240).
RankCountries == {long_f[i].country : i \in 1..Len(long_f)}

\* The years a country has in long_f: its rows of yearly_comparison and cty_ts.
CountryYears(c) ==
    {long_f[i].year : i \in {j \in 1..Len(long_f) : long_f[j].country = c}}

\* How detect_anomalies_for_country(t, c, k) ends: "None", "table" or "raised".
DetectOutcome(t, c, k) ==
    LET mine(r) == r.country = c
        cd == SelectSeq(t.rows, mine)
        X(col) == [i \in 1..Len(cd) |-> <<cd[i][col]>>]
        fails(col) == col \in t.cols /\ FitError(X(col), k) # <<>>
    IN  IF InsufficientData(cd) THEN "None"
        ELSE IF fails("measles") \/ fails("rubella") THEN "raised"
        ELSE "table"

\* In the model of the call itself, every call that ran its body ended as
\* DetectOutcome says.
DetectOutcomeAgrees ==
    (last # <<>> /\ ~last.hit) =>
        last.value.kind = DetectOutcome(last.key[1], last.key[2], last.key[3])

\* The charts line 471 collects.
ChartNames ==
    {"fig_global", "fig_reg", "fig_bar", "fig_map", "fig_cty", "fig_compare",
     "fig_anom"}

ScriptFrame ==
    /\ UNCHANGED <<uploaded, read_cache, messages, normalized, base_wide, base_long,
                   runs_left>>
    /\ UNCHANGED <<nvars, avars, gvars>>

\* Lines 29-46: the sidebar widgets take the values the user has set.
Sidebar ==
    /\ spc = "sidebar"
    /\ \E d \in DiseaseOptions(base_long), yr \in YearRanges(base_long),
          rs \in SUBSET Unique(base_long, "region") :
          widgets' = [disease_sel |-> d, year_range |-> yr, regions_sel |-> rs]
    /\ spc' = "filter"
    /\ UNCHANGED <<long_f, figs>>
    /\ ScriptFrame

\* Line 66.
Filter ==
    /\ spc = "filter"
    /\ long_f' = apply_filters(base_long, widgets.disease_sel, widgets.regions_sel,
                               widgets.year_range)
    /\ spc' = "tab1"
    /\ UNCHANGED <<widgets, figs>>
    /\ ScriptFrame

\* Lines 103-182: fig_global and fig_reg are built if the aggregates of long_f
\* have rows, which they have when long_f has.
Tab1 ==
    /\ spc = "tab1"
    /\ figs' = figs \cup (IF long_f # <<>> THEN {"fig_global", "fig_reg"} ELSE {})
    /\ spc' = "tab2"
    /\ UNCHANGED <<widgets, long_f>>
    /\ ScriptFrame

\* Lines 184-235: fig_bar if long_f has rows, fig_map if it has rows of the
\* year the map slider is set to.
Tab2 ==
    /\ spc = "tab2"
    /\ \E map_year \in widgets.year_range[1]..widgets.year_range[2] :
          figs' = figs
                    \cup (IF long_f # <<>> THEN {"fig_bar"} ELSE {})
                    \cup (IF IntNum(map_year) \in Unique(long_f, "year")
                          THEN {"fig_map"} ELSE {})
    /\ spc' = "tab3"
    /\ UNCHANGED <<widgets, long_f>>
    /\ ScriptFrame

\* Lines 237-362: fig_cty if a country is selected, fig_compare if two or more
\* countries are compared; int(country_data.std()) of line 358 raises
\* ValueError for a compared country with a single year.
Tab3 ==
    /\ spc = "tab3"
    /\ \E sel_cty \in RankCountries \cup {<<>>}, compare_countries \in SUBSET RankCountries :
          /\ (sel_cty = <<>>) <=> (RankCountries = {})
          /\ figs' = figs
                       \cup (IF sel_cty # <<>> THEN {"fig_cty"} ELSE {})
                       \cup (IF Cardinality(compare_countries) >= 2
                             THEN {"fig_compare"} ELSE {})
          /\ spc' = IF /\ Cardinality(compare_countries) >= 2
                       /\ \E c \in compare_countries : Cardinality(CountryYears(c)) = 1
                    THEN "crashed" ELSE "tab4"
    /\ UNCHANGED <<widgets, long_f>>
    /\ ScriptFrame

\* Lines 364-453: fig_anom if detection is enabled, a country is selected and
\* its result is a table; an exception of the detector other than ImportError
\* is not caught.
Tab4 ==
    /\ spc = "tab4"
    /\ \E run_anomaly \in BOOLEAN, contamination \in SliderContaminations,
          anomaly_country \in RankCountries \cup {<<>>} :
          /\ (anomaly_country = <<>>) <=> (RankCountries = {})
          /\ LET outcome == IF run_anomaly /\ anomaly_country # <<>>
                             THEN DetectOutcome(base_wide, anomaly_country, contamination)
                             ELSE "skipped"
             IN  /\ figs' = figs \cup (IF outcome = "table" THEN {"fig_anom"} ELSE {})
                 /\ spc' = IF outcome = "raised" THEN "crashed" ELSE "report"
    /\ UNCHANGED <<widgets, long_f>>
    /\ ScriptFrame

\* Lines 455-493: line 471 names every chart; a name never assigned in this
\* run is a NameError.
Report ==
    /\ spc = "report"
    /\ spc' = IF ChartNames \subseteq figs THEN "done" ELSE "crashed"
    /\ UNCHANGED <<widgets, long_f, figs>>
    /\ ScriptFrame

\* The user changes a widget or the file: Streamlit runs the script again
\* from its first line, with fresh names; the caches of the process stay.
Rerun ==
    /\ RunEnded
    /\ runs_left > 0
    /\ runs_left' = runs_left - 1
    /\ uploaded' \in Files \cup {"none"}
    /\ spc' = "upload"
    /\ messages' = <<>>
    /\ base_wide' = EmptyTable
    /\ base_long' = <<>>
    /\ widgets' = <<>>
    /\ long_f' = <<>>
    /\ figs' = {}
    /\ raw' = EmptyTable
    /\ df' = EmptyTable
    /\ long_df' = <<>>
    /\ pc' = "off"
    /\ exc' = <<>>
    /\ UNCHANGED <<read_cache, normalized>>
    /\ UNCHANGED <<avars, gvars>>

InitApp ==
    /\ NormalizeIdle
    /\ AnomalyIdle
    /\ GlobalIdle
    /\ spc = "upload"
    /\ uploaded \in Files \cup {"none"}
    /\ read_cache = <<>>
    /\ messages = <<>>
    /\ normalized = <<>>
    /\ base_wide = EmptyTable
    /\ base_long = <<>>
    /\ widgets = <<>>
    /\ long_f = <<>>
    /\ figs = {}
    /\ runs_left = MaxRuns - 1

NextApp ==
    \/ Upload
    \/ ReadExcel
    \/ CallNormalize
    \/ DoRename
    \/ DoStrip
    \/ DoYear
    \/ DoMeasures
    \/ DoLong
    \/ DoEnrich
    \/ DoExtras
    \/ DoReturn
    \/ LoaderReturn
    \/ Sidebar
    \/ Filter
    \/ Tab1
    \/ Tab2
    \/ Tab3
    \/ Tab4
    \/ Report
    \/ Rerun

SpecApp == InitApp /\ [][NextApp]_vars

\* ------------------------------------------------------------------ claims
Terminated == pc \in {"done", "raised"}

\* The raw sheet has every expected column.
HasExpectedCols == SourceCols \subseteq raw.cols

\* The raw cell of source column c in row i can be read as a whole number.
ReadsAsInteger(c) == ~IsNull(ToNumeric(c)) /\ IsWhole(ToNumeric(c))

\* C1: for every sheet with the expected columns, normalize_and_transform
\* returns normally, and in the wide table a Year that is no integer and a
\* measure that is no number are null.
C1_NeverRaisesOnCells ==
    (HasExpectedCols /\ Terminated) =>
        /\ pc = "done"
        /\ \A i \in 1..Len(raw.rows) :
              /\ ~ReadsAsInteger(raw.rows[i]["Year"]) => IsNull(df.rows[i]["year"])
              /\ \A c \in {"Measles_Cases", "Rubella_Cases", "Population"} :
                    IsNull(ToNumeric(raw.rows[i][c])) => IsNull(df.rows[i][Rename(c)])

\* C2: with the country or the year column absent, normalize_and_transform
\* still returns (it does not raise).
C2_MissingIdentityFailsSoft ==
    (Terminated /\ ("Country" \notin raw.cols \/ "Year" \notin raw.cols)) =>
        pc = "done"

DiseaseCols == <<"measles", "rubella", "measles_per100k", "rubella_per100k">>

DiseaseLabels == <<"Measles", "Rubella", "Measles_per100k", "Rubella_per100k">>

\* The indices of the disease columns the wide table has.
PresentDiseases == {k \in 1..4 : DiseaseCols[k] \in df.cols}

\* The wide table is complete: lines 14-26 ran to their end.
WideBuilt ==
    \/ pc \in {"long", "enrich", "extras", "return", "done"}
    \/ pc = "raised" /\ exc[2] \in {"measles", "rubella"}

LongTuple(r) == <<r.region, r.country, r.year, r.value, r.disease>>

WideTuple(i, k) ==
    <<df.rows[i]["region"], df.rows[i]["country"], df.rows[i]["year"],
      df.rows[i][DiseaseCols[k]], DiseaseLabels[k]>>

\* C3: a wide table of N rows with D disease columns present (D from 1 to 4)
\* gives a long table of exactly N*D rows, one per wide row and present
\* column with that row's region, country, year and value, nulls kept, and
\* the labels of the long table are those of the columns present.
C3_LongHasNTimesDRows ==
    (Terminated /\ WideBuilt /\ PresentDiseases # {}) =>
        /\ pc = "done"
        /\ Len(long_df) = Len(df.rows) * Cardinality(PresentDiseases)
        /\ \A i \in 1..Len(df.rows), k \in PresentDiseases :
              Cardinality({j \in 1..Len(long_df) : LongTuple(long_df[j]) = WideTuple(i, k)})
                = Cardinality({p \in (1..Len(df.rows)) \X PresentDiseases :
                                  WideTuple(p[1], p[2]) = WideTuple(i, k)})
        /\ Len(df.rows) > 0 =>
              {long_df[j].disease : j \in 1..Len(long_df)}
                = {DiseaseLabels[k] : k \in PresentDiseases}

\* The (country, disease) groups of the long table and the rows of one, in the
\* order the long table has them.
LongGroups == {<<long_df[j].country, long_df[j].disease>> : j \in 1..Len(long_df)}

GroupRows(k) ==
    LET in(r) == <<r.country, r.disease>> = k IN SelectSeq(long_df, in)

Max(a, b) == IF a >= b THEN a ELSE b

RECURSIVE SumNonNull(_, _, _)
SumNonNull(vals, lo, hi) ==
    IF lo > hi THEN IntNum(0)
    ELSE IF IsNull(vals[hi]) THEN SumNonNull(vals, lo, hi - 1)
    ELSE RatAdd(SumNonNull(vals, lo, hi - 1), vals[hi])

\* The mean of the non-null values at positions lo..hi, null if there is none.
WindowMean(vals, lo, hi) ==
    LET n == Cardinality({j \in lo..hi : ~IsNull(vals[j])})
    IN  IF n = 0 THEN Null ELSE RatDiv(SumNonNull(vals, lo, hi), IntNum(n))

GroupValues(g) == [i \in 1..Len(g) |-> g[i].value]

\* C4: in the returned long table every (country, disease) group is in
\* ascending year order and, at each position i of the group, roll3 is the mean
\* of the group's non-null values at positions max(1,i-2)..i and roll5 that at
\* max(1,i-4)..i, null only when the window holds no value; the example series
\* 100, 150, 95 has roll3 100, 125, 115.
C4_RollingMeans ==
    pc = "done" =>
        /\ \A k \in LongGroups :
              LET g == GroupRows(k)
                  vals == GroupValues(g)
              IN  /\ \A i \in 1..(Len(g) - 1) : ~YearLess(g[i + 1].year, g[i].year)
                  /\ \A i \in 1..Len(g) :
                        /\ g[i].roll3 = WindowMean(vals, Max(1, i - 2), i)
                        /\ g[i].roll5 = WindowMean(vals, Max(1, i - 4), i)
                        /\ ~IsNull(g[i].value) => ~IsNull(g[i].roll3)
        /\ raw = ExampleTable =>
              LET g == GroupRows(<<<<"A">>, "Measles">>)
              IN  [i \in 1..Len(g) |-> g[i].roll3]
                    = <<IntNum(100), IntNum(125), IntNum(115)>>

\* A returned group of six or more rows with a null among them, whose
\* three-row, five-row and whole-history means differ at row six.
C4_Witness ==
    /\ pc = "done"
    /\ \E k \in LongGroups :
          LET g == GroupRows(k)
              vals == GroupValues(g)
          IN  /\ Len(g) >= 6
              /\ \E i \in 1..6 : IsNull(vals[i])
              /\ ~IsNull(g[6].roll3)
              /\ g[6].roll3 # g[6].roll5
              /\ g[6].roll5 # WindowMean(vals, 1, 6)
    /\ Cardinality(LongGroups) >= 2

\* C5: in every (country, disease) group of the returned long table, in its
\* year order, yoy of the first row is null, and yoy of a later row is null
\* when the previous row's value is null or zero and value/previous - 1
\* otherwise (null when the row's own value is null).
C5_YearOverYear ==
    pc = "done" =>
        \A k \in LongGroups :
            LET g == GroupRows(k)
            IN  /\ IsNull(g[1].yoy)
                /\ \A i \in 2..Len(g) :
                      IF IsNull(g[i - 1].value) \/ IsZero(g[i - 1].value)
                      THEN IsNull(g[i].yoy)
                      ELSE IF IsNull(g[i].value) THEN IsNull(g[i].yoy)
                      ELSE g[i].yoy
                             = RatSub(RatDiv(g[i].value, g[i - 1].value), IntNum(1))

\* A returned group whose years have a gap, with a defined yoy across the
\* gap, while another group has a row after a zero and a row after a null.
C5_Witness ==
    /\ pc = "done"
    /\ \E k \in LongGroups :
          LET g == GroupRows(k)
          IN  \E i \in 2..Len(g) :
                  /\ ~IsNull(g[i].yoy)
                  /\ ~IsNull(g[i].year) /\ ~IsNull(g[i - 1].year)
                  /\ g[i].year[1] - g[i - 1].year[1] > 1
    /\ \E k \in LongGroups :
          LET g == GroupRows(k)
          IN  \E i \in 2..Len(g) :
                  /\ ~IsNull(g[i - 1].value) /\ IsZero(g[i - 1].value)
                  /\ ~IsNull(g[i].value)
                  /\ IsNull(g[i].yoy)

\* Rows the wide table has for the country of the call that ended last.
LastCountryRows ==
    LET mine(r) == r.country = last.key[2] IN SelectSeq(last.key[1].rows, mine)

\* The contamination lies in the documented range (0, 1).
ValidContamination(k) == k[1] > 0 /\ k[1] < k[2]

\* C6: a call for a country with fewer than 3 rows in the wide table, none
\* included, returns None: it neither raises nor returns a table.
C6_FewRowsGiveNone ==
    (last # <<>> /\ Len(LastCountryRows) < 3) => last.value = NoneValue

\* A call for a country with exactly two rows has run its body and returned None.
C6_Witness ==
    /\ last # <<>>
    /\ ~last.hit
    /\ Len(LastCountryRows) = 2
    /\ last.value = NoneValue

\* The observations of a feature set: the country's rows for measles and for
\* rubella, the rows with neither value null for joint; none if a column of
\* the set is missing.
Observations(name) ==
    LET t == last.key[1]
        both(r) == ~IsNull(r.measles) /\ ~IsNull(r.rubella)
    IN  CASE name = "measles" ->
                IF "measles" \in t.cols THEN Len(LastCountryRows) ELSE 0
          [] name = "rubella" ->
                IF "rubella" \in t.cols THEN Len(LastCountryRows) ELSE 0
          [] name = "joint" ->
                IF {"measles", "rubella"} \subseteq t.cols
                THEN Len(SelectSeq(LastCountryRows, both)) ELSE 0

\* C7: for a country with at least 3 rows the call gives a table that has the
\* columns <set>_anomaly and <set>_anomaly_score exactly for the feature sets
\* with at least 3 observations, one value per row of the country.
C7_ColumnsPerScoredSet ==
    (last # <<>> /\ Len(LastCountryRows) >= 3 /\ ValidContamination(last.key[3])) =>
        /\ last.value.kind = "table"
        /\ Len(last.value.table.rows) = Len(LastCountryRows)
        /\ \A name \in {"measles", "rubella", "joint"} :
              /\ AnomalyCol(name) \in last.value.table.cols <=> Observations(name) >= 3
              /\ ScoreCol(name) \in last.value.table.cols <=> Observations(name) >= 3

\* C8: for a country with at least 3 rows the call returns a table, whatever
\* nulls the country's measles and rubella values hold.
C8_NoCrashOnGaps ==
    (last # <<>> /\ Len(LastCountryRows) >= 3 /\ ValidContamination(last.key[3])) =>
        last.value.kind = "table"

\* C9: a call with a contamination outside (0, 1) ends in a rejection made on
\* entry, before line 14 runs, for any table and country.
C9_RejectedAtEntry ==
    (last # <<>> /\ ~ValidContamination(last.key[3])) =>
        /\ last.value.kind = "raised"
        /\ last.stage = "entry"

\* C10: every value a call returns for given arguments (table, country,
\* contamination) equals the first value ever computed for them, in whatever
\* process and after whatever other calls it is computed.
C10_Deterministic ==
    (last # <<>> /\ last.value.kind # "raised") =>
        /\ last.key \in DOMAIN first
        /\ first[last.key].value = last.value

\* The body has run a second time for the same arguments, in a process whose
\* generator started from another seed, and returned a table with the columns
\* of all three models.
C10_Witness ==
    /\ last # <<>>
    /\ last.again
    /\ ~last.hit
    /\ last.value.kind = "table"
    /\ last.seed # first[last.key].seed
    /\ {"measles_anomaly_score", "rubella_anomaly_score", "joint_anomaly_score"}
          \subseteq last.value.table.cols

\* C11: whenever a call has fitted all three models, the joint model was built
\* with strictly more estimators than the measles and rubella models.
C11_JointLargerEnsemble ==
    (last # <<>> /\ last.value.kind = "table"
        /\ "joint_anomaly" \in last.value.table.cols
        /\ "measles_anomaly" \in last.value.table.cols) =>
        JointEstimators > DefaultEstimators

\* C12: normalize_and_transform is at work or has ended in a script run only
\* if that run holds a file that was read, and works on the sheet read from
\* it; a run with no file or with an unreadable file has reported one
\* message and stopped without invoking normalize_and_transform.
C12_PipelineAfterRead ==
    /\ pc # "off" =>
          /\ uploaded # "none"
          /\ Readable(uploaded)
          /\ raw = Sheet(uploaded)
    /\ (spc \notin {"off", "upload", "read"} /\ (uploaded = "none" \/ ~Readable(uploaded))) =>
          /\ spc = "stopped"
          /\ Len(messages) = 1
          /\ pc = "off"

\* A run with an unreadable file has stopped, in a process where an earlier
\* run did invoke normalize_and_transform.
C12_Witness ==
    /\ spc = "stopped"
    /\ uploaded = "corrupt"
    /\ messages = <<"error: could not read">>
    /\ normalized # <<>>
    /\ pc = "off"

\* C13, for normalization: the body of normalize_and_transform never runs
\* twice in one process for the same input table, a repeated invocation being
\* served from a store.
C13_NormalizeMemoized ==
    \A i \in 1..Len(normalized) : \A j \in 1..Len(normalized) :
        i # j => normalized[i] # normalized[j]

\* C14: once the script holds the tables of a sheet, every row whose raw Year
\* is not numeric is in the wide table, at its place, with a null year, and
\* long_f, the result of apply_filters for whatever disease, regions and year
\* range are selected, has no row with a null year.
C14_NullYearOutOfSlices ==
    /\ spc \in {"sidebar", "filter", "tab1", "tab2", "tab3", "tab4", "report", "done"} =>
          /\ Len(base_wide.rows) = Len(raw.rows)
          /\ \A i \in 1..Len(raw.rows) :
                IsNull(ToNumeric(raw.rows[i]["Year"])) => IsNull(base_wide.rows[i]["year"])
    /\ \A j \in 1..Len(long_f) : ~IsNull(long_f[j].year)

\* apply_filters has returned rows from a long table that holds a row with a
\* null year, of the selected disease and of a selected region, which came
\* from a raw Year of "N/A".
C14_Witness ==
    /\ spc = "tab1"
    /\ long_f # <<>>
    /\ \E i \in 1..Len(raw.rows) : raw.rows[i]["Year"] = StrCell(NA_Text)
    /\ \E j \in 1..Len(base_long) :
          /\ IsNull(base_long[j].year)
          /\ base_long[j].disease = widgets.disease_sel
          /\ base_long[j].region \in widgets.regions_sel

\* The returned wide table has a row for every row of the caller's table, and
\* in it the cells of the column the pipeline does not know.
WideKeepsRows ==
    /\ Len(df.rows) = Len(raw.rows)
    /\ \A c \in PassCols \cap raw.cols :
          /\ c \in df.cols
          /\ \A i \in 1..Len(raw.rows) : df.rows[i][c] = raw.rows[i][c]

\* C15: no step of normalize_and_transform changes the caller's table (its
\* column names and its cells), and when the call returns the wide table has
\* as many rows as the caller's table, duplicates of (country, year) included,
\* with the unrecognised column carried over cell by cell.
C15_InputUntouched ==
    [][/\ raw' = raw
       /\ pc' = "done" => WideKeepsRows']_vars

\* The call has returned for a sheet of two rows with the same country and
\* year, with a blank after the country name: the caller's table still has the
\* source column names and the blank, the wide table has the new names and
\* the trimmed name, in two rows.
C15_Witness ==
    /\ pc = "done"
    /\ Len(raw.rows) = 2
    /\ raw.rows[1]["Country"] = StrCell(<<"B", " ">>)
    /\ raw.rows[2]["Country"] = raw.rows[1]["Country"]
    /\ raw.rows[2]["Year"] = raw.rows[1]["Year"]
    /\ "Country" \in raw.cols /\ "country" \notin raw.cols
    /\ "country" \in df.cols /\ "Country" \notin df.cols
    /\ Len(df.rows) = 2
    /\ df.rows[1]["country"] = <<"B">>

\* C17: in every script run that reaches line 471, where the charts are
\* collected, each of the seven charts was assigned earlier in that run.
C17_ChartsAssigned == spc = "report" => ChartNames \subseteq figs

\* The place of the first row of country c in the wide table.
FirstRow(c) == SetMin({i \in 1..Len(wide.rows) : wide.rows[i].country = c})

\* The result detect_anomalies_for_country has given for the k-th country.
CountryResult(k) == cache[<<wide, countries[k], g_contamination>>]

\* The rows of the results that are tables, in the order of the countries.
ResultRows ==
    Flatten([k \in 1..Len(countries) |->
                IF CountryResult(k).kind = "table" THEN CountryResult(k).table.rows
                ELSE <<>>])

\* C16: the countries are the distinct countries of the wide table in order
\* of first appearance; after the k-th of n countries the progress reported
\* is k/n; a call that has ended has reported n/n = 1 if there is a country;
\* and the table returned holds the rows of the countries whose result is a
\* table, in the order of the countries, being empty when there is none.
C16_SequentialProgress ==
    gpc \in {"loop", "called", "done", "raised"} =>
        /\ {countries[k] : k \in 1..Len(countries)}
              = {wide.rows[i].country : i \in 1..Len(wide.rows)}
        /\ \A j \in 1..Len(countries) : \A k \in 1..Len(countries) :
              j < k => FirstRow(countries[j]) < FirstRow(countries[k])
        /\ Len(progress) = idx
        /\ \A k \in 1..Len(progress) : progress[k] = Rat(k, Len(countries))
        /\ (gpc \in {"done", "raised"} /\ countries # <<>>) =>
              /\ Len(progress) = Len(countries)
              /\ progress[Len(progress)] = IntNum(1)
        /\ gpc \in {"done", "raised"} =>
              /\ combined.kind = "table"
              /\ combined.table.rows = ResultRows
              /\ ResultRows = <<>> => combined.table = EmptyTable

====
